---- MODULE Spec2Model ----
(***************************************************************************)
(* Model of src/main.py: the POST /analyze-task handler of the Smart Task  *)
(* Analyzer.  One request at a time walks through request validation, the  *)
(* credential check, the single collaborator call, JSON decoding,          *)
(* defaulting, schema validation and the due_date check.                   *)
(*                                                                         *)
(* JSON values are records tagged by their type: t is one of "null",       *)
(* "num", "str", "arr", "obj".  A string is the sequence of its            *)
(* characters, so that datetime.fromisoformat is computed on the text.     *)
(* A JSON object is a function from its keys to JSON values.               *)
(***************************************************************************)
EXTENDS Integers, Sequences, FiniteSets, TLC

VARIABLES env, pc, text, entered, calls, reqCalls, handled,
          output, data, validated, status, body, detail

vars == <<env, pc, text, entered, calls, reqCalls, handled,
          output, data, validated, status, body, detail>>

\* Number of requests one behaviour of the model serves.
MaxRequests == 2

(***************************************************************************)
(* JSON values                                                             *)
(***************************************************************************)
None == [t |-> "null"]

Str(s) == [t |-> "str", v |-> s]

Num(n) == [t |-> "num", v |-> n]

Arr == [t |-> "arr", v |-> <<>>]

Obj(f) == [t |-> "obj", v |-> f]

\* A key the generator of sample objects leaves out of the object.
Absent == [t |-> "absent"]

\* A variable the current request has not assigned yet.
Unset == [t |-> "unset"]

s_empty == <<>>

s_low == <<"l", "o", "w">>

s_medium == <<"m", "e", "d", "i", "u", "m">>

s_high == <<"h", "i", "g", "h">>

s_urgent == <<"u", "r", "g", "e", "n", "t">>

s_general == <<"g", "e", "n", "e", "r", "a", "l">>

s_work == <<"w", "o", "r", "k">>

s_report == <<"r", "e", "p", "o", "r", "t">>

s_next_tuesday == <<"n", "e", "x", "t", " ", "t", "u", "e", "s", "d", "a", "y">>

s_datetime == <<"2", "0", "2", "6", "-", "0", "2", "-", "1", "1", "T",
                "1", "5", ":", "0", "0", ":", "0", "0">>

s_feb30 == <<"2", "0", "2", "6", "-", "0", "2", "-", "3", "0", "T",
             "1", "5", ":", "0", "0", ":", "0", "0">>

s_date_only == <<"2", "0", "2", "6", "-", "0", "2", "-", "1", "1">>

s_leap_day == <<"2", "0", "2", "4", "-", "0", "2", "-", "2", "9">>

s_hour24 == <<"2", "0", "2", "6", "-", "0", "2", "-", "1", "1", " ",
              "2", "4", ":", "0", "0">>

(***************************************************************************)
(* TaskRequest and TaskAnalysis                                            *)
(***************************************************************************)
\* The fields of TaskAnalysis, in declaration order.
TaskAnalysisFields == {"description", "priority", "due_date", "category"}

\* Literal["low", "medium", "high"]
PriorityLiteral == {Str(s_low), Str(s_medium), Str(s_high)}

\* Variant: the min_length=1 constraint of text is left out.
RequestErrors_NoMinLength(t) ==
    IF t = Absent \/ t.t # "str" THEN {"text"} ELSE {}

\* TaskRequest: text is required, a string, min_length=1.  The set of
\* fields the framework reports; the handler runs only when it is empty.
RequestErrors(t) ==
    IF t = Absent \/ t.t # "str" THEN {"text"}
    ELSE IF Len(t.v) < 1 THEN {"text"}
    ELSE {}

(***************************************************************************)
(* datetime.fromisoformat, on the extended format without fraction and     *)
(* UTC offset: YYYY-MM-DD, optionally one separator character (any) and    *)
(* HH, HH:MM or HH:MM:SS.                                                  *)
(***************************************************************************)
Digits == {"0", "1", "2", "3", "4", "5", "6", "7", "8", "9"}

DigitVal(c) ==
    CASE c = "0" -> 0 [] c = "1" -> 1 [] c = "2" -> 2 [] c = "3" -> 3
      [] c = "4" -> 4 [] c = "5" -> 5 [] c = "6" -> 6 [] c = "7" -> 7
      [] c = "8" -> 8 [] c = "9" -> 9

AllDigits(s, from, to) == \A i \in from..to : s[i] \in Digits

Two(s, i) == DigitVal(s[i]) * 10 + DigitVal(s[i + 1])

IsLeap(y) == (y % 4 = 0) /\ ((y % 100 # 0) \/ (y % 400 = 0))

DaysInMonth(y, m) ==
    IF m = 2 THEN (IF IsLeap(y) THEN 29 ELSE 28)
    ELSE IF m \in {4, 6, 9, 11} THEN 30 ELSE 31

\* The date part s[1..10] is YYYY-MM-DD and names a day of the calendar.
DateOk(s) ==
    /\ AllDigits(s, 1, 4) /\ s[5] = "-"
    /\ AllDigits(s, 6, 7) /\ s[8] = "-"
    /\ AllDigits(s, 9, 10)
    /\ LET y == Two(s, 1) * 100 + Two(s, 3)
           m == Two(s, 6)
           d == Two(s, 9)
       IN  /\ y >= 1
           /\ m \in 1..12
           /\ d >= 1 /\ d <= DaysInMonth(y, m)

\* The time part s[12..] is HH, HH:MM or HH:MM:SS within range.
TimeOk(s) ==
    LET n == Len(s) - 11
    IN  /\ n \in {2, 5, 8}
        /\ AllDigits(s, 12, 13) /\ Two(s, 12) \in 0..23
        /\ n >= 5 => (s[14] = ":" /\ AllDigits(s, 15, 16) /\ Two(s, 15) \in 0..59)
        /\ n >= 8 => (s[17] = ":" /\ AllDigits(s, 18, 19) /\ Two(s, 18) \in 0..59)

\* TRUE when datetime.fromisoformat(s) returns, FALSE when it raises
\* ValueError.
FromIsoformatOk(s) ==
    IF Len(s) < 10 THEN FALSE
    ELSE IF Len(s) = 10 THEN DateOk(s)
    ELSE IF Len(s) = 11 THEN FALSE
    ELSE DateOk(s) /\ TimeOk(s)

(***************************************************************************)
(* The handler's pure steps                                                *)
(***************************************************************************)
\* Variant: os.getenv(...) is None, which lets an empty credential through.
CredentialMissing_OnlyUnset(e) == e = None

\* not os.getenv("OPENAI_API_KEY"): the variable is unset or empty.
CredentialMissing(e) == e = None \/ e = Str(s_empty)

\* data.get(k) on a dict.
Get(d, k) == IF k \in DOMAIN d THEN d[k] ELSE None

\* data[k] = v on a dict.
Set(d, k, v) == [x \in (DOMAIN d) \cup {k} |-> IF x = k THEN v ELSE d[x]]

DefaultPriority(d) ==
    IF Get(d, "priority") = None THEN Set(d, "priority", Str(s_medium)) ELSE d

\* Variant: only a null category is defaulted, an empty one is kept.
DefaultCategory_OnlyNull(d) ==
    IF Get(d, "category") = None THEN Set(d, "category", Str(s_general)) ELSE d

DefaultCategory(d) ==
    IF Get(d, "category") \in {None, Str(s_empty)}
    THEN Set(d, "category", Str(s_general)) ELSE d

\* Variant: due_date is reset to null whatever the collaborator supplied.
DefaultDueDate_AlwaysNull(d) == Set(d, "due_date", None)

DefaultDueDate(d) ==
    IF Get(d, "due_date") = None THEN Set(d, "due_date", None) ELSE d

\* The three defaulting statements, in order.
ApplyDefaults(d) == DefaultDueDate(DefaultCategory(DefaultPriority(d)))

\* Variant: priority is declared str instead of the Literal.
SchemaErrors_AnyPriorityString(d) ==
    {k \in {"description"} : k \notin DOMAIN d \/ d[k].t # "str"}
    \cup {k \in {"priority"} : k \notin DOMAIN d \/ d[k].t # "str"}
    \cup {k \in {"due_date"} : k \in DOMAIN d /\ d[k].t \notin {"str", "null"}}
    \cup {k \in {"category"} : k \notin DOMAIN d \/ d[k].t # "str"}

\* Variant: category is declared without a type (Any).
SchemaErrors_CategoryUnchecked(d) ==
    {k \in {"description"} : k \notin DOMAIN d \/ d[k].t # "str"}
    \cup {k \in {"priority"} : k \notin DOMAIN d \/ d[k] \notin PriorityLiteral}
    \cup {k \in {"due_date"} : k \in DOMAIN d /\ d[k].t \notin {"str", "null"}}
    \cup {k \in {"category"} : k \notin DOMAIN d}

\* TaskAnalysis(**d): the fields pydantic reports as violated.
SchemaErrors(d) ==
    {k \in {"description"} : k \notin DOMAIN d \/ d[k].t # "str"}
    \cup {k \in {"priority"} : k \notin DOMAIN d \/ d[k] \notin PriorityLiteral}
    \cup {k \in {"due_date"} : k \in DOMAIN d /\ d[k].t \notin {"str", "null"}}
    \cup {k \in {"category"} : k \notin DOMAIN d \/ d[k].t # "str"}

\* The validated model: the four declared fields, other keys ignored.
Validate(d) == [k \in TaskAnalysisFields |-> Get(d, k)]

\* Variant: "if validated.due_date:", which skips the empty string.
DueDateInvalid_Truthy(m) ==
    /\ m["due_date"] \notin {None, Str(s_empty)}
    /\ ~FromIsoformatOk(m["due_date"].v)

\* The due_date check raises ValueError.
DueDateInvalid(m) ==
    m["due_date"] # None /\ ~FromIsoformatOk(m["due_date"].v)

(***************************************************************************)
(* Inputs                                                                  *)
(***************************************************************************)
EnvValues == {None, Str(s_empty), Str(s_work)}

TextValues == {Absent, Num(7), Str(s_empty), Str(s_report)}

DescriptionOpts == {Absent, None, Num(7), Str(s_empty), Str(s_report)}

PriorityOpts == {Absent, None, Num(7), Str(s_low), Str(s_medium), Str(s_high),
                 Str(s_urgent)}

DueDateOpts == {Absent, None, Num(7), Str(s_empty), Str(s_next_tuesday),
                Str(s_datetime), Str(s_feb30), Str(s_date_only),
                Str(s_leap_day), Str(s_hour24)}

CategoryOpts == {Absent, None, Num(7), Str(s_empty), Str(s_work)}

ExtraOpts == {Absent, Str(s_work)}

ObjOf(o) == Obj([k \in {x \in DOMAIN o : o[x] # Absent} |-> o[k]])

SampleObjects ==
    {ObjOf([description |-> d, priority |-> p, due_date |-> u,
            category |-> c, notes |-> x]) :
        d \in DescriptionOpts, p \in PriorityOpts, u \in DueDateOpts,
        c \in CategoryOpts, x \in ExtraOpts}

\* JSON texts that decode to something that is not an object.
SampleNonObjects == {None, Num(7), Str(s_work), Arr}

\* What client.responses.create does: it raises, or it returns a text that
\* is not JSON, or a text that is the JSON encoding of value.
Outputs ==
    {[raised |-> TRUE, json |-> FALSE, value |-> None],
     [raised |-> FALSE, json |-> FALSE, value |-> None]}
    \cup {[raised |-> FALSE, json |-> TRUE, value |-> v] :
            v \in SampleObjects \cup SampleNonObjects}

(***************************************************************************)
(* State machine                                                           *)
(***************************************************************************)
NoDetail == [kind |-> "none", fields |-> {}]

Detail(k, f) == [kind |-> k, fields |-> f]

Init ==
    /\ env \in EnvValues
    /\ pc = "idle"
    /\ text = Unset
    /\ entered = FALSE
    /\ calls = 0
    /\ reqCalls = 0
    /\ handled = 0
    /\ output = Unset
    /\ data = Unset
    /\ validated = Unset
    /\ status = 0
    /\ body = Unset
    /\ detail = NoDetail

\* The response is sent: the request is over.
Respond(s, b, d) ==
    /\ pc' = "done"
    /\ status' = s
    /\ body' = b
    /\ detail' = d
    /\ handled' = handled + 1

Continue(p) ==
    /\ pc' = p
    /\ UNCHANGED <<status, body, detail, handled>>

\* A request arrives and the framework validates its body as a TaskRequest.
ReceiveRequest ==
    /\ pc = "idle"
    /\ \E t \in TextValues :
        /\ text' = t
        /\ IF RequestErrors(t) # {}
           THEN Respond(422, Unset, Detail("request", RequestErrors(t)))
           ELSE Continue("check_key")
    /\ UNCHANGED <<env, entered, calls, reqCalls, output, data, validated>>

\* analyze_task is entered and tests the credential.
CheckCredential ==
    /\ pc = "check_key"
    /\ entered' = TRUE
    /\ IF CredentialMissing(env)
       THEN Respond(500, Unset, Detail("misconfigured", {}))
       ELSE Continue("call")
    /\ UNCHANGED <<env, text, calls, reqCalls, output, data, validated>>

\* Variant: a call that raised is retried once.
CallCollaborator_Retry ==
    /\ pc = "call"
    /\ calls' = calls + 1
    /\ reqCalls' = reqCalls + 1
    /\ \E o \in Outputs :
        /\ output' = o
        /\ IF o.raised /\ reqCalls < 1
           THEN Continue("call")
           ELSE IF o.raised
                THEN Respond(502, Unset, Detail("openai_error", {}))
                ELSE Continue("parse")
    /\ UNCHANGED <<env, text, entered, data, validated>>

\* client.responses.create(...), once.
CallCollaborator ==
    /\ pc = "call"
    /\ calls' = calls + 1
    /\ reqCalls' = reqCalls + 1
    /\ \E o \in Outputs :
        /\ output' = o
        /\ IF o.raised
           THEN Respond(502, Unset, Detail("openai_error", {}))
           ELSE Continue("parse")
    /\ UNCHANGED <<env, text, entered, data, validated>>

\* json.loads(response.output_text)
ParseJson ==
    /\ pc = "parse"
    /\ IF ~output.json
       THEN /\ Respond(502, Unset, Detail("invalid_json", {}))
            /\ data' = data
       ELSE /\ Continue("defaults")
            /\ data' = output.value
    /\ UNCHANGED <<env, text, entered, calls, reqCalls, output, validated>>

\* The three data.get(...) tests.  On a value that is not a dict the first
\* data.get raises AttributeError, which no except clause catches: the
\* framework answers with its generic 500.
Defaulting ==
    /\ pc = "defaults"
    /\ IF data.t # "obj"
       THEN /\ Respond(500, Unset, Detail("internal", {}))
            /\ data' = data
       ELSE /\ Continue("validate")
            /\ data' = Obj(ApplyDefaults(data.v))
    /\ UNCHANGED <<env, text, entered, calls, reqCalls, output, validated>>

\* TaskAnalysis(**data)
ValidateSchema ==
    /\ pc = "validate"
    /\ IF SchemaErrors(data.v) # {}
       THEN /\ Respond(422, Unset, Detail("schema", SchemaErrors(data.v)))
            /\ validated' = validated
       ELSE /\ Continue("due_date")
            /\ validated' = Obj(Validate(data.v))
    /\ UNCHANGED <<env, text, entered, calls, reqCalls, output, data>>

\* datetime.fromisoformat(validated.due_date), then the JSON response.
CheckDueDate ==
    /\ pc = "due_date"
    /\ IF DueDateInvalid(validated.v)
       THEN Respond(422, Unset, Detail("due_date", {"due_date"}))
       ELSE Respond(200, validated, NoDetail)
    /\ UNCHANGED <<env, text, entered, calls, reqCalls, output, data, validated>>

\* The next request starts with nothing left of the previous one.
NextRequest ==
    /\ pc = "done"
    /\ handled < MaxRequests
    /\ pc' = "idle"
    /\ text' = Unset
    /\ entered' = FALSE
    /\ reqCalls' = 0
    /\ output' = Unset
    /\ data' = Unset
    /\ validated' = Unset
    /\ status' = 0
    /\ body' = Unset
    /\ detail' = NoDetail
    /\ UNCHANGED <<env, calls, handled>>

Next ==
    \/ ReceiveRequest
    \/ CheckCredential
    \/ CallCollaborator
    \/ ParseJson
    \/ Defaulting
    \/ ValidateSchema
    \/ CheckDueDate
    \/ NextRequest

Spec == Init /\ [][Next]_vars

TypeOK ==
    /\ env \in EnvValues
    /\ pc \in {"idle", "check_key", "call", "parse", "defaults", "validate",
               "due_date", "done"}
    /\ entered \in BOOLEAN
    /\ calls \in 0..MaxRequests
    /\ reqCalls \in 0..1
    /\ handled \in 0..MaxRequests
    /\ status \in {0, 200, 422, 500, 502}

(***************************************************************************)
(* Properties                                                              *)
(***************************************************************************)

C2_DescriptionNonEmpty ==
    (pc = "done" /\ status = 200) =>
        /\ body.v["description"].t = "str"
        /\ Len(body.v["description"].v) >= 1

\* C3: every request ends in 200, 422, 500 or 502 by the taxonomy, no
\* failure escapes unmapped, 500 happens only without a credential, 502
\* only when the call raised or its text is not JSON, 422 only for a
\* request, schema or due_date validation failure.
C3_ErrorTaxonomy ==
    pc = "done" =>
        /\ status \in {200, 422, 500, 502}
        /\ detail.kind # "internal"
        /\ status = 500 => env \in {None, Str(s_empty)}
        /\ status = 502 => (reqCalls = 1 /\ (output.raised \/ ~output.json))
        /\ status = 422 => detail.kind \in {"request", "schema", "due_date"}

\* C4 as stated: without a credential every request, whatever its content,
\* is answered 500 and makes no outbound call.
C4_Always500WithoutCredential ==
    (pc = "done" /\ env \in {None, Str(s_empty)}) =>
        (status = 500 /\ reqCalls = 0)

\* C4 amended: without a credential no outbound call is ever made; a
\* request whose text is a non-empty string is answered 500, and a request
\* whose text is missing, empty or not a string is answered 422 by the
\* request validation that runs before the handler.
C4_NoCredentialNoCall ==
    env \in {None, Str(s_empty)} =>
        /\ calls = 0 /\ reqCalls = 0
        /\ pc \notin {"call", "parse", "defaults", "validate", "due_date"}
        /\ pc = "done" =>
            IF text # Absent /\ text.t = "str" /\ Len(text.v) >= 1
            THEN status = 500 /\ detail.kind = "misconfigured"
            ELSE status = 422 /\ detail.kind = "request"

\* C4 witness: a valid request answered 500 with an empty credential.
C4_Witness ==
    /\ pc = "done" /\ env = Str(s_empty) /\ text = Str(s_report)
    /\ status = 500 /\ reqCalls = 0

\* C5: an object with a string description, priority absent or null,
\* category absent, null or empty and due_date absent is answered 200 with
\* priority medium, category general and due_date null.
C5_DefaultsApplied ==
    (/\ pc = "done" /\ reqCalls = 1
     /\ ~output.raised /\ output.json /\ output.value.t = "obj"
     /\ LET o == output.value.v
        IN  /\ "description" \in DOMAIN o /\ o["description"].t = "str"
            /\ ("priority" \notin DOMAIN o \/ o["priority"] = None)
            /\ \/ "category" \notin DOMAIN o
               \/ o["category"] = None
               \/ o["category"] = Str(s_empty)
            /\ "due_date" \notin DOMAIN o)
    => /\ status = 200
       /\ body.v["priority"] = Str(s_medium)
       /\ body.v["category"] = Str(s_general)
       /\ body.v["due_date"] = None
       /\ body.v["description"] = output.value.v["description"]

\* C5 witness: the collaborator returned only a description, with an empty
\* category.
C5_Witness ==
    /\ pc = "done" /\ reqCalls = 1 /\ status = 200
    /\ output.value.t = "obj"
    /\ DOMAIN output.value.v = {"description", "category"}
    /\ output.value.v["category"] = Str(s_empty)
    /\ body.v["category"] = Str(s_general)

\* C6: an object with a priority supplied outside low, medium, high, a
\* missing or null description, or a field of the wrong type is answered
\* 422 by schema validation, whatever its other fields, also when its
\* due_date is not an ISO string.
C6_SchemaViolation422 ==
    (/\ pc = "done" /\ reqCalls = 1
     /\ ~output.raised /\ output.json /\ output.value.t = "obj"
     /\ LET o == output.value.v
        IN  \/ /\ "priority" \in DOMAIN o /\ o["priority"] # None
               /\ o["priority"] \notin {Str(s_low), Str(s_medium), Str(s_high)}
            \/ "description" \notin DOMAIN o
            \/ o["description"].t # "str"
            \/ "category" \in DOMAIN o /\ o["category"].t \notin {"str", "null"}
            \/ "due_date" \in DOMAIN o /\ o["due_date"].t \notin {"str", "null"})
    => /\ status = 422
       /\ detail.kind = "schema"
       /\ detail.fields # {}
       /\ detail.fields \subseteq {"description", "priority", "due_date", "category"}

\* C6 witness: a priority outside the enumeration together with a due_date
\* that is not an ISO string.
C6_Witness ==
    /\ pc = "done" /\ reqCalls = 1 /\ status = 422
    /\ output.value.t = "obj"
    /\ "priority" \in DOMAIN output.value.v
    /\ output.value.v["priority"] = Str(s_urgent)
    /\ "due_date" \in DOMAIN output.value.v
    /\ output.value.v["due_date"] = Str(s_next_tuesday)
    /\ detail.fields = {"priority"}

C8_ExactlyOneCall ==
    /\ reqCalls <= 1
    /\ pc \in {"parse", "defaults", "validate", "due_date"} => reqCalls = 1
    /\ (/\ pc = "done"
        /\ text # Absent /\ text.t = "str" /\ Len(text.v) >= 1
        /\ env \notin {None, Str(s_empty)}) => reqCalls = 1
    /\ calls <= handled + (IF pc = "done" THEN 0 ELSE 1)

\* C8 witness: the call raised and the request ended with a single call.
C8_Witness ==
    /\ pc = "done" /\ status = 502 /\ reqCalls = 1 /\ output.raised
    /\ handled = 2 /\ calls = 2

\* C9: a request whose text is missing or empty is answered 422 by request
\* validation; the handler body never runs and no outbound call is made.
C9_EmptyTextRejected ==
    (pc = "done" /\ text \in {Absent, Str(s_empty)}) =>
        /\ status = 422
        /\ detail = Detail("request", {"text"})
        /\ ~entered
        /\ reqCalls = 0
        /\ output = Unset

\* C9 witness: an empty text rejected while the credential is configured,
\* after an earlier request made its call.
C9_Witness ==
    /\ pc = "done" /\ text = Str(s_empty) /\ status = 422
    /\ env = Str(s_work) /\ calls = 1 /\ handled = 2

\* C10 as stated: defaulting and validation drop nothing, every key of the
\* collaborator object is in the 200 response.
C10_NoKeyDropped ==
    (pc = "done" /\ status = 200) =>
        \A k \in DOMAIN output.value.v : k \in DOMAIN body.v

\* C10 amended: defaulting keeps every key and changes only a null
\* priority and a null or empty category; validation keeps the four schema
\* fields with these values and drops every other key; an object of
\* exactly four valid fields is answered 200 with that object.
C10_SuppliedValuesKept ==
    (reqCalls = 1 /\ ~output.raised /\ output.json /\ output.value.t = "obj") =>
        LET o == output.value.v
            Kept(k) == /\ ~(k = "priority" /\ o[k] = None)
                       /\ ~(k = "category" /\ o[k] \in {None, Str(s_empty)})
        IN  /\ pc \in {"validate", "due_date", "done"} =>
                \A k \in DOMAIN o :
                    k \in DOMAIN data.v /\ (Kept(k) => data.v[k] = o[k])
            /\ (pc = "done" /\ status = 200) =>
                /\ DOMAIN body.v = {"description", "priority", "due_date", "category"}
                /\ \A k \in DOMAIN body.v \cap DOMAIN o :
                        Kept(k) => body.v[k] = o[k]
            /\ (/\ pc = "done"
                /\ DOMAIN o = {"description", "priority", "due_date", "category"}
                /\ o["description"].t = "str"
                /\ o["priority"] \in {Str(s_low), Str(s_medium), Str(s_high)}
                /\ o["category"].t = "str" /\ o["category"] # Str(s_empty)
                /\ \/ o["due_date"] = None
                   \/ o["due_date"].t = "str" /\ FromIsoformatOk(o["due_date"].v))
               => (status = 200 /\ body = output.value)

\* C10 witness: four valid fields and one more key, answered 200 with the
\* four fields as supplied.
C10_Witness ==
    /\ pc = "done" /\ status = 200
    /\ "notes" \in DOMAIN output.value.v
    /\ "priority" \in DOMAIN output.value.v
    /\ output.value.v["priority"] = Str(s_high)
    /\ "due_date" \in DOMAIN output.value.v
    /\ output.value.v["due_date"] = Str(s_datetime)
    /\ body.v["due_date"] = Str(s_datetime)
====
